---------------------------- MODULE Spec2Model ----------------------------
(***************************************************************************)
(* DefaultVehicleHal (automotive/vehicle/2.0/default/impl/vhal_v2_0):      *)
(* the property broker between the VehiclePropertyStore, the               *)
(* VehicleHalClient and the RecurrentTimer.                                *)
(*                                                                         *)
(* Floats are modelled by integers (every rate and bound used is           *)
(* integral).  Intervals are kept in microseconds instead of nanoseconds   *)
(* so that the heartbeat interval fits a 32-bit integer.                   *)
(***************************************************************************)
EXTENDS Integers, Sequences, FiniteSets, TLC

VARIABLES
    phase,            \* "constructed" | "created" | "crashed"
    mPropStore,       \* the store's values: record id -> value or None
    mRecurrentTimer,  \* the scheduler's registrations: set of [cookie, interval]
    now,              \* elapsedRealtimeNano() / uptimeMillis(), in model time units
    lastOp,           \* the last operation: its inputs, result, collaborator calls, events
    inflight,         \* the due cookies the timer thread has collected and not yet
                      \* handed to the timer action (<<>>: none)
    pendingSet,       \* a set call between its availability read and its forwarding
                      \* call (None: no such call)
    fresh,            \* record id -> the AVAILABLE value pushed over its placeholder,
                      \* while no later write has been accepted for it (else None)
    accepted,         \* history: the pushed values the store accepted, in order
    emitted,          \* history: the events onPropertyValue emitted, in order
    stale             \* history: whether unsubscribe(PERF_VEHICLE_SPEED) returned OK
                      \* with no subscribe of it since, and the timer events for
                      \* it emitted since then

\* The threads' positions and the histories: the specifications that do not
\* interleave inside a handler leave them as they are.
aside == <<inflight, pendingSet, fresh, accepted, emitted, stale>>

vars == <<phase, mPropStore, mRecurrentTimer, now, lastOp, aside>>

None == [none |-> TRUE]

\* ------------------------------------------------------------------ bounds
MaxTime == 1

\* ------------------------------------------------- property ids (types.hal)
PERF_VEHICLE_SPEED == 291504647
VHAL_HEARTBEAT == 290459443
HVAC_FAN_SPEED == 356517120
INFO_VIN == 286261504
kMixedTypePropertyForTest == 568332561

TYPE_STRING == 1048576
TYPE_BOOLEAN == 2097152
TYPE_INT32 == 4194304
TYPE_INT32_VEC == 4259840
TYPE_INT64 == 5242880
TYPE_INT64_VEC == 5308416
TYPE_FLOAT == 6291456
TYPE_FLOAT_VEC == 6356992
TYPE_BYTES == 7340032
TYPE_MIXED == 14680064

GROUP_VENDOR == 536870912
AREA_GLOBAL == 16777216

\* value.prop & VehiclePropertyType::MASK (0x00ff0000)
getPropType(prop) == ((prop \div 65536) % 256) * 65536

\* value.prop & VehiclePropertyGroup::MASK (0xf0000000)
getPropGroup(prop) == (prop \div 268435456) * 268435456

\* (prop & VehicleArea::MASK (0x0f000000)) == VehicleArea::GLOBAL
isGlobalProp(prop) == ((prop \div 16777216) % 16) * 16777216 = AREA_GLOBAL

RECURSIVE BitAnd(_, _)
BitAnd(a, b) ==
    IF a = 0 \/ b = 0 THEN 0
    ELSE (IF a % 2 = 1 /\ b % 2 = 1 THEN 1 ELSE 0) + 2 * BitAnd(a \div 2, b \div 2)

\* ------------------------------------------------------------ value records
RawPropValues(i32, i64, f, b, s) ==
    [int32Values |-> i32, int64Values |-> i64, floatValues |-> f, bytes |-> b,
     stringValue |-> s]

EmptyValues == RawPropValues(<<>>, <<>>, <<>>, <<>>, <<>>)

VehiclePropValue(prop, areaId, status, timestamp, value) ==
    [prop |-> prop, areaId |-> areaId, status |-> status, timestamp |-> timestamp,
     value |-> value]

VehicleAreaConfig(areaId, lo, hi) ==
    [areaId |-> areaId,
     minInt32Value |-> lo, maxInt32Value |-> hi,
     minInt64Value |-> lo, maxInt64Value |-> hi,
     minFloatValue |-> lo, maxFloatValue |-> hi]

\* ----------------------------------- the schemas the Hardware Client reports
\* HVAC_FAN_SPEED: INT32, area-scoped (SEAT), ON_CHANGE, one area [0, 100].
\* PERF_VEHICLE_SPEED: FLOAT, global, CONTINUOUS, rates [1, 10], unbounded (0, 0).
\* kMixedTypePropertyForTest: vendor MIXED, global, no area configs.
getAllPropertyConfig ==
    << [prop |-> HVAC_FAN_SPEED, changeMode |-> "ON_CHANGE",
        minSampleRate |-> 0, maxSampleRate |-> 0,
        areaConfigs |-> << VehicleAreaConfig(1, 0, 100) >>,
        configArray |-> <<>>],
       [prop |-> PERF_VEHICLE_SPEED, changeMode |-> "CONTINUOUS",
        minSampleRate |-> 1, maxSampleRate |-> 10,
        areaConfigs |-> << VehicleAreaConfig(0, 0, 0) >>,
        configArray |-> <<>>],
       [prop |-> kMixedTypePropertyForTest, changeMode |-> "ON_CHANGE",
        minSampleRate |-> 0, maxSampleRate |-> 0,
        areaConfigs |-> <<>>,
        configArray |-> <<1, 1, 0, 2, 0, 0, 1, 0, 0>>] >>

AllProps ==
    {HVAC_FAN_SPEED, PERF_VEHICLE_SPEED, kMixedTypePropertyForTest, INFO_VIN,
     VHAL_HEARTBEAT}

AreaIds == 0 .. 3

\* initStaticConfig: every discovered schema is registered with the store.
initStaticConfig ==
    [p \in AllProps |->
        IF \E i \in DOMAIN getAllPropertyConfig : getAllPropertyConfig[i].prop = p
        THEN getAllPropertyConfig[
                 CHOOSE i \in DOMAIN getAllPropertyConfig :
                     getAllPropertyConfig[i].prop = p]
        ELSE None]

mConfigs == initStaticConfig

\* ------------------------------------------------ VehiclePropertyStore
getConfigOrNull(prop) == IF prop \in DOMAIN mConfigs THEN mConfigs[prop] ELSE None

\* A record is keyed by the property and its area, area 0 for a global one.
getRecordId(prop, areaId) == <<prop, IF isGlobalProp(prop) THEN 0 ELSE areaId>>

RecordIds == {getRecordId(p, a) : p \in AllProps, a \in AreaIds}

readValueOrNull(store, prop, areaId) == store[getRecordId(prop, areaId)]

\* writeValue(value, updateStatus): <<accepted, store'>>.  A value of an
\* unregistered property is refused; a new record is inserted as given; an
\* existing record takes the timestamp and payload, and the status only with
\* updateStatus; the store may refuse to replace an existing record (accept).
writeValue(store, value, updateStatus, accept) ==
    LET id == getRecordId(value.prop, value.areaId)
        cur == store[id]
    IN  IF getConfigOrNull(value.prop) = None THEN <<FALSE, store>>
        ELSE IF cur = None THEN <<TRUE, [store EXCEPT ![id] = value]>>
        ELSE IF ~accept THEN <<FALSE, store>>
        ELSE <<TRUE,
               [store EXCEPT ![id] =
                   [cur EXCEPT !.timestamp = value.timestamp,
                               !.value = value.value,
                               !.status = IF updateStatus THEN value.status ELSE @]]>>

EmptyStore == [id \in RecordIds |-> None]


\* ------------------------------------------------------- validation engine
\* Mutant of checkVendorMixedPropValue: the Long flag (configArray[4]) is not
\* counted.
checkVendorMixedPropValueNoLongFlag(value, config) ==
    LET configArray == config.configArray
        int32Count == (IF configArray[2] = 1 THEN 1 ELSE 0)
                      + (IF configArray[3] = 1 THEN 1 ELSE 0) + configArray[4]
        int64Count == configArray[6]
        floatCount == (IF configArray[7] = 1 THEN 1 ELSE 0) + configArray[8]
    IN  IF Len(value.value.int32Values) # int32Count THEN "INVALID_ARG"
        ELSE IF Len(value.value.int64Values) # int64Count THEN "INVALID_ARG"
        ELSE IF Len(value.value.floatValues) # floatCount THEN "INVALID_ARG"
        ELSE IF configArray[9] # 0 /\ Len(value.value.bytes) # configArray[9]
             THEN "INVALID_ARG"
        ELSE "OK"

checkVendorMixedPropValue(value, config) ==
    LET configArray == config.configArray
        int32Count == (IF configArray[2] = 1 THEN 1 ELSE 0)
                      + (IF configArray[3] = 1 THEN 1 ELSE 0) + configArray[4]
        int64Count == (IF configArray[5] = 1 THEN 1 ELSE 0) + configArray[6]
        floatCount == (IF configArray[7] = 1 THEN 1 ELSE 0) + configArray[8]
    IN  IF Len(value.value.int32Values) # int32Count THEN "INVALID_ARG"
        ELSE IF Len(value.value.int64Values) # int64Count THEN "INVALID_ARG"
        ELSE IF Len(value.value.floatValues) # floatCount THEN "INVALID_ARG"
        ELSE IF configArray[9] # 0 /\ Len(value.value.bytes) # configArray[9]
             THEN "INVALID_ARG"
        ELSE "OK"

checkPropValue(value, config) ==
    LET type == getPropType(value.prop)
    IN  CASE type \in {TYPE_BOOLEAN, TYPE_INT32} ->
                 IF Len(value.value.int32Values) # 1 THEN "INVALID_ARG" ELSE "OK"
          [] type = TYPE_INT32_VEC ->
                 IF Len(value.value.int32Values) < 1 THEN "INVALID_ARG" ELSE "OK"
          [] type = TYPE_INT64 ->
                 IF Len(value.value.int64Values) # 1 THEN "INVALID_ARG" ELSE "OK"
          [] type = TYPE_INT64_VEC ->
                 IF Len(value.value.int64Values) < 1 THEN "INVALID_ARG" ELSE "OK"
          [] type = TYPE_FLOAT ->
                 IF Len(value.value.floatValues) # 1 THEN "INVALID_ARG" ELSE "OK"
          [] type = TYPE_FLOAT_VEC ->
                 IF Len(value.value.floatValues) < 1 THEN "INVALID_ARG" ELSE "OK"
          [] type = TYPE_BYTES -> "OK"
          [] type = TYPE_STRING -> "OK"
          [] type = TYPE_MIXED ->
                 IF getPropGroup(value.prop) = GROUP_VENDOR
                 THEN checkVendorMixedPropValue(value, config)
                 ELSE "OK"
          [] OTHER -> "INVALID_ARG"

\* The area config checkValueRange reads its bounds from: areaConfigs[0] of a
\* global property, the first config sharing a bit with value.areaId of an
\* area-scoped one; None when the loop leaves the pointer uninitialized.
resolveAreaConfig(value, config) ==
    IF isGlobalProp(value.prop)
    THEN config.areaConfigs[1]
    ELSE LET matching == {i \in DOMAIN config.areaConfigs :
                             BitAnd(config.areaConfigs[i].areaId, value.areaId) # 0}
         IN  IF matching = {} THEN None
             ELSE config.areaConfigs[CHOOSE i \in matching : \A j \in matching : i <= j]

\* Mutant of rangeCheck: the upper bound is not enforced.
rangeCheckNoUpperBound(x, lo, hi) ==
    IF lo = 0 /\ hi = 0 THEN "OK"
    ELSE IF x < lo THEN "INVALID_ARG"
    ELSE "OK"

rangeCheck(x, lo, hi) ==
    IF lo = 0 /\ hi = 0 THEN "OK"
    ELSE IF x < lo \/ x > hi THEN "INVALID_ARG"
    ELSE "OK"

\* "UNDEFINED": the bounds are read through the uninitialized areaConfig pointer.
checkValueRange(value, config) ==
    LET type == getPropType(value.prop)
    IN  IF isGlobalProp(value.prop) /\ Len(config.areaConfigs) = 0 THEN "OK"
        ELSE IF type \notin {TYPE_INT32, TYPE_INT64, TYPE_FLOAT} THEN "OK"
        ELSE LET areaConfig == resolveAreaConfig(value, config)
             IN  IF areaConfig = None THEN "UNDEFINED"
                 ELSE CASE type = TYPE_INT32 ->
                               rangeCheck(value.value.int32Values[1],
                                          areaConfig.minInt32Value,
                                          areaConfig.maxInt32Value)
                        [] type = TYPE_INT64 ->
                               rangeCheck(value.value.int64Values[1],
                                          areaConfig.minInt64Value,
                                          areaConfig.maxInt64Value)
                        [] type = TYPE_FLOAT ->
                               rangeCheck(value.value.floatValues[1],
                                          areaConfig.minFloatValue,
                                          areaConfig.maxFloatValue)

\* What a read through the uninitialized pointer can produce.
UndefinedOutcomes == {"OK", "INVALID_ARG", "CRASH"}


\* ------------------------------------------------------------ RecurrentTimer
\* Intervals in microseconds.
kHeartBeatIntervalNs == 3000000

hertzToNanoseconds(hz) == 1000000 \div hz

\* mCookieToEventsMap[cookie] = RecurrentEvent(interval, cookie)
registerRecurrentEvent(timer, interval, cookie) ==
    {r \in timer : r.cookie # cookie} \cup {[cookie |-> cookie, interval |-> interval]}

unregisterRecurrentEvent(timer, cookie) == {r \in timer : r.cookie # cookie}

\* ------------------------------------------------------------------- inputs
Int32Payload(xs) == RawPropValues(xs, <<>>, <<>>, <<>>, <<>>)
FloatPayload(xs) == RawPropValues(<<>>, <<>>, xs, <<>>, <<>>)

\* The values callers pass to set.
SetInputs ==
    {VehiclePropValue(HVAC_FAN_SPEED, 1, "AVAILABLE", 0, Int32Payload(xs)) :
        xs \in {<<50>>, <<150>>, <<-1>>, <<>>}}
    \cup {VehiclePropValue(HVAC_FAN_SPEED, 1, st, 0, Int32Payload(<<50>>)) :
        st \in {"UNAVAILABLE", "ERROR"}}
    \cup {VehiclePropValue(HVAC_FAN_SPEED, 2, "AVAILABLE", 0, Int32Payload(<<50>>))}
    \cup {VehiclePropValue(HVAC_FAN_SPEED, 3, "AVAILABLE", 0, Int32Payload(xs)) :
        xs \in {<<100>>, <<101>>}}
    \cup {VehiclePropValue(PERF_VEHICLE_SPEED, 0, "AVAILABLE", 0, FloatPayload(xs)) :
        xs \in {<<30>>, <<>>}}
    \cup {VehiclePropValue(PERF_VEHICLE_SPEED, 0, "ERROR", 0, FloatPayload(<<30>>))}
    \cup {VehiclePropValue(kMixedTypePropertyForTest, 0, "AVAILABLE", 0, v) :
        v \in {RawPropValues(<<1, 2, 3>>, <<>>, <<4>>, <<>>, <<>>),
               RawPropValues(<<1, 2>>, <<>>, <<4>>, <<>>, <<>>)}}
    \cup {VehiclePropValue(INFO_VIN, 0, st, 0, EmptyValues) :
        st \in {"AVAILABLE", "UNAVAILABLE"}}

\* What the Hardware Client's setProperty may report.
ClientStatuses == {"OK", "TRY_AGAIN"}

\* The values the Hardware Client pushes at time t (one of them malformed: two
\* elements for an INT32 property).
PushInputs(t) ==
    {VehiclePropValue(HVAC_FAN_SPEED, 1, st, t, Int32Payload(<<50>>)) :
        st \in {"AVAILABLE", "ERROR"}}
    \cup {VehiclePropValue(HVAC_FAN_SPEED, 1, "AVAILABLE", t, Int32Payload(<<50, 150>>))}
    \cup {VehiclePropValue(PERF_VEHICLE_SPEED, 0, st, t, FloatPayload(<<30>>)) :
        st \in {"AVAILABLE", "UNAVAILABLE"}}
    \cup {VehiclePropValue(INFO_VIN, 0, "AVAILABLE", t, EmptyValues)}

GetInputs ==
    {<<HVAC_FAN_SPEED, 1>>, <<HVAC_FAN_SPEED, 2>>, <<PERF_VEHICLE_SPEED, 0>>,
     <<PERF_VEHICLE_SPEED, 1>>, <<INFO_VIN, 0>>}

SampleRates == {0, 1, 10, 11}

SubscribeInputs ==
    {<<PERF_VEHICLE_SPEED, r>> : r \in SampleRates}
    \cup {<<p, 1>> : p \in {HVAC_FAN_SPEED, INFO_VIN, VHAL_HEARTBEAT}}

SubscribeProps == {PERF_VEHICLE_SPEED, HVAC_FAN_SPEED, INFO_VIN, VHAL_HEARTBEAT}

\* ------------------------------------------------------------ the last call
Op(op, arg, status, ret, calls, events, aux) ==
    [op |-> op, arg |-> arg, status |-> status, ret |-> ret, calls |-> calls,
     events |-> events, aux |-> aux]

Call(fn, args) == [fn |-> fn, args |-> args]

\* ----------------------------------------------------------------- Init
Init ==
    /\ phase = "constructed"
    /\ mPropStore = EmptyStore
    /\ mRecurrentTimer = {}
    /\ now = 0
    /\ lastOp = Op("DefaultVehicleHal", None, "-", None,
                   <<Call("registerPropertyValueCallback", None)>>, <<>>, None)
    /\ inflight = <<>>
    /\ pendingSet = None
    /\ fresh = [id \in RecordIds |-> None]
    /\ accepted = <<>>
    /\ emitted = <<>>
    /\ stale = [unsubscribed |-> FALSE, events |-> 0]

\* ------------------------------------------------------------------ get
\* Mutant of getStatus: every stored value is reported OK.
getStatusPresentIsOk(v) == IF v = None THEN "INVALID_ARG" ELSE "OK"

getStatus(v) ==
    IF v = None THEN "INVALID_ARG"
    ELSE IF v.status = "AVAILABLE" THEN "OK"
    ELSE "TRY_AGAIN"

\* Mutant of obtainStamped: the copy keeps the timestamp it was stored with.
obtainStoredTimestamp(internalPropValue, t) == internalPropValue

\* v = getValuePool()->obtain(*internalPropValue); v->timestamp = elapsedRealtimeNano()
obtainStamped(internalPropValue, t) ==
    IF internalPropValue # None
    THEN [internalPropValue EXCEPT !.timestamp = t]
    ELSE None

Get(prop, areaId) ==
    /\ phase = "created"
    /\ LET internalPropValue == readValueOrNull(mPropStore, prop, areaId)
           v == obtainStamped(internalPropValue, now)
       IN  lastOp' = Op("get", [prop |-> prop, areaId |-> areaId], getStatus(v), v,
                        <<>>, <<>>, None)
    /\ UNCHANGED <<phase, mPropStore, mRecurrentTimer, now>>

\* ------------------------------------------------------------------ set
\* Mutant of isSettableStatus: only UNAVAILABLE is refused.
isSettableStatusOrError(propValue) == propValue.status # "UNAVAILABLE"

\* propValue.status != VehiclePropertyStatus::AVAILABLE
isSettableStatus(propValue) == propValue.status = "AVAILABLE"

\* Mutant of isDisabled: a stored ERROR status does not block the write.
isDisabledUnavailableOnly(currentPropValue) ==
    currentPropValue # None /\ currentPropValue.status = "UNAVAILABLE"

\* currentPropValue && currentPropValue->status != VehiclePropertyStatus::AVAILABLE
isDisabled(currentPropValue) ==
    currentPropValue # None /\ currentPropValue.status # "AVAILABLE"

\* [status, calls, range, uninit]: range is what checkValueRange came to ("-"
\* when set returned before it), uninit whether it read the uninitialized
\* areaConfig pointer, in which case ub is what that read produced.
setResult(store, propValue, clientStatus, ub) ==
    LET config == getConfigOrNull(propValue.prop)
        R(status, calls, range, uninit) ==
            [status |-> status, calls |-> calls, range |-> range, uninit |-> uninit]
    IN  IF ~isSettableStatus(propValue) THEN R("INVALID_ARG", <<>>, "-", FALSE)
        ELSE IF config = None THEN R("INVALID_ARG", <<>>, "-", FALSE)
        ELSE IF checkPropValue(propValue, config) # "OK"
             THEN R(checkPropValue(propValue, config), <<>>, "-", FALSE)
        ELSE LET checked == checkValueRange(propValue, config)
                 uninit == checked = "UNDEFINED"
                 range == IF uninit THEN ub ELSE checked
                 currentPropValue ==
                     readValueOrNull(store, propValue.prop, propValue.areaId)
             IN  IF range # "OK" THEN R(range, <<>>, range, uninit)
                 ELSE IF isDisabled(currentPropValue)
                      THEN R("NOT_AVAILABLE", <<>>, range, uninit)
                 ELSE R(clientStatus,
                        <<Call("setProperty",
                               [value |-> propValue, updateStatus |-> FALSE,
                                returned |-> clientStatus])>>,
                        range, uninit)

\* clientStatus is what setProperty reports when it is called, ub what the
\* read of the uninitialized pointer produces when it happens ("OK" stands
\* for both when they are not used).
\* Mutant of storeAfterSet: a forwarded set the client answers OK is written
\* to the store as well.
storeAfterSetWriteThrough(store, propValue, r) ==
    IF r.calls # <<>> /\ r.status = "OK"
    THEN writeValue(store, propValue, FALSE, TRUE)[2]
    ELSE store

\* set reads the store (readValueOrNull) and forwards to the client; it has no
\* writeValue call on any path.
storeAfterSet(store, propValue, r) == store

Set(propValue, clientStatus, ub) ==
    /\ phase = "created"
    /\ \E r \in {setResult(mPropStore, propValue, clientStatus, ub)} :
           /\ r.calls = <<>> => clientStatus = "OK"
           /\ ~r.uninit => ub = "OK"
           /\ lastOp' = Op("set", propValue, r.status, None, r.calls, <<>>,
                           [range |-> r.range, uninit |-> r.uninit])
           /\ phase' = IF r.status = "CRASH" THEN "crashed" ELSE phase
           /\ mPropStore' = storeAfterSet(mPropStore, propValue, r)
    /\ UNCHANGED <<mRecurrentTimer, now>>

\* --------------------------------------------------------------- onCreate
numAreas(cfg) == IF isGlobalProp(cfg.prop) THEN 0 ELSE Len(cfg.areaConfigs)

\* Mutant of placeholder: the placeholder carries a default element.
placeholderWithDefault(cfg, i) ==
    VehiclePropValue(cfg.prop,
                     IF isGlobalProp(cfg.prop) THEN 0 ELSE cfg.areaConfigs[i].areaId,
                     "UNAVAILABLE", 0, Int32Payload(<<0>>))

\* The placeholder of the i-th area of cfg.
placeholder(cfg, i) ==
    VehiclePropValue(cfg.prop,
                     IF isGlobalProp(cfg.prop) THEN 0 ELSE cfg.areaConfigs[i].areaId,
                     "UNAVAILABLE", 0, EmptyValues)

\* The placeholders onCreate writes, in the order of its two loops.
RECURSIVE placeholders(_, _, _)
placeholders(configs, c, i) ==
    IF c > Len(configs) THEN <<>>
    ELSE IF i > numAreas(configs[c]) THEN placeholders(configs, c + 1, 1)
    ELSE <<placeholder(configs[c], i)>> \o placeholders(configs, c, i + 1)

RECURSIVE writeAll(_, _, _)
writeAll(store, values, accept) ==
    IF values = <<>> THEN store
    ELSE writeAll(writeValue(store, Head(values), TRUE, accept)[2], Tail(values), accept)

registerHeartBeatEvent(timer) ==
    registerRecurrentEvent(timer, kHeartBeatIntervalNs, VHAL_HEARTBEAT)

OnCreate(accept) ==
    /\ phase = "constructed"
    /\ LET values == placeholders(getAllPropertyConfig, 1, 1)
       IN  /\ mPropStore' = writeAll(mPropStore, values, accept)
           /\ lastOp' = Op("onCreate", None, "-", None,
                           [i \in DOMAIN values |->
                               Call("writeValue",
                                    [value |-> values[i], updateStatus |-> TRUE])]
                           \o <<Call("triggerSendAllValues", None),
                                Call("registerRecurrentEvent",
                                     [interval |-> kHeartBeatIntervalNs,
                                      cookie |-> VHAL_HEARTBEAT])>>,
                           <<>>, [fresh |-> mPropStore = EmptyStore,
                                  held |-> {id \in RecordIds : mPropStore[id] # None}])
    /\ mRecurrentTimer' = registerHeartBeatEvent(mRecurrentTimer)
    /\ phase' = "created"
    /\ UNCHANGED now

\* ------------------------------------------------- subscribe / unsubscribe
\* Mutant of isContinuousProperty: every property that is not STATIC passes.
isContinuousPropertyNotStatic(propId) ==
    LET config == getConfigOrNull(propId)
    IN  IF config = None THEN FALSE ELSE config.changeMode # "STATIC"

isContinuousProperty(propId) ==
    LET config == getConfigOrNull(propId)
    IN  IF config = None THEN FALSE ELSE config.changeMode = "CONTINUOUS"

\* Mutant of sampleRateOutOfRange: the bounds themselves are refused.
sampleRateOutOfRangeStrict(sampleRate, config) ==
    sampleRate <= config.minSampleRate \/ sampleRate >= config.maxSampleRate

\* sampleRate < config->minSampleRate || sampleRate > config->maxSampleRate
sampleRateOutOfRange(sampleRate, config) ==
    sampleRate < config.minSampleRate \/ sampleRate > config.maxSampleRate

\* Mutant of subscribeRegister: a property already registered keeps its rate.
subscribeRegisterKeepFirst(timer, property, sampleRate) ==
    IF \E r \in timer : r.cookie = property THEN timer
    ELSE registerRecurrentEvent(timer, hertzToNanoseconds(sampleRate), property)

\* mRecurrentTimer.registerRecurrentEvent(hertzToNanoseconds(sampleRate), property)
subscribeRegister(timer, property, sampleRate) ==
    registerRecurrentEvent(timer, hertzToNanoseconds(sampleRate), property)

\* Mutant of subscribeResult: the event is registered before the rate is checked.
subscribeResultEager(timer, property, sampleRate) ==
    LET R(status, t, calls) == [status |-> status, timer |-> t, calls |-> calls]
        registered == registerRecurrentEvent(timer, hertzToNanoseconds(sampleRate),
                                             property)
        call == <<Call("registerRecurrentEvent",
                       [interval |-> hertzToNanoseconds(sampleRate),
                        cookie |-> property])>>
    IN  IF ~isContinuousProperty(property) THEN R("INVALID_ARG", timer, <<>>)
        ELSE IF sampleRate = 0 THEN R("INVALID_ARG", timer, <<>>)
        ELSE IF sampleRate < getConfigOrNull(property).minSampleRate
                \/ sampleRate > getConfigOrNull(property).maxSampleRate
             THEN R("INVALID_ARG", registered, call)
        ELSE R("OK", registered, call)

\* [status, timer, calls] of subscribe(property, sampleRate).
subscribeResult(timer, property, sampleRate) ==
    LET R(status, t, calls) == [status |-> status, timer |-> t, calls |-> calls]
    IN  IF ~isContinuousProperty(property) THEN R("INVALID_ARG", timer, <<>>)
        ELSE IF sampleRateOutOfRange(sampleRate, getConfigOrNull(property))
             THEN R("INVALID_ARG", timer, <<>>)
        ELSE R("OK", subscribeRegister(timer, property, sampleRate),
               <<Call("registerRecurrentEvent",
                      [interval |-> hertzToNanoseconds(sampleRate),
                       cookie |-> property])>>)

Subscribe(property, sampleRate) ==
    /\ phase = "created"
    /\ \E r \in {subscribeResult(mRecurrentTimer, property, sampleRate)} :
           /\ mRecurrentTimer' = r.timer
           /\ lastOp' = Op("subscribe", [prop |-> property, sampleRate |-> sampleRate],
                           r.status, None, r.calls, <<>>, [before |-> mRecurrentTimer])
    /\ UNCHANGED <<phase, mPropStore, now>>

\* Mutant of unsubscribeResult: OK is returned and the registration stays.
unsubscribeResultKeepsRegistration(timer, property) ==
    IF ~isContinuousProperty(property)
    THEN [status |-> "INVALID_ARG", timer |-> timer, calls |-> <<>>]
    ELSE [status |-> "OK", timer |-> timer,
          calls |-> <<Call("unregisterRecurrentEvent", [cookie |-> property])>>]

\* [status, timer, calls] of unsubscribe(property).
unsubscribeResult(timer, property) ==
    IF ~isContinuousProperty(property)
    THEN [status |-> "INVALID_ARG", timer |-> timer, calls |-> <<>>]
    ELSE [status |-> "OK", timer |-> unregisterRecurrentEvent(timer, property),
          calls |-> <<Call("unregisterRecurrentEvent", [cookie |-> property])>>]

Unsubscribe(property) ==
    /\ phase = "created"
    /\ \E r \in {unsubscribeResult(mRecurrentTimer, property)} :
           /\ mRecurrentTimer' = r.timer
           /\ lastOp' = Op("unsubscribe", [prop |-> property], r.status, None, r.calls,
                           <<>>, [before |-> mRecurrentTimer])
    /\ UNCHANGED <<phase, mPropStore, now>>

\* ---------------------------------------------------------- onPropertyValue
\* Mutant of halEventsOf: the event goes out whatever writeValue returned.
halEventsAlways(written, updatedPropValue) == <<updatedPropValue>>

\* if (mPropStore->writeValue(...)) doHalEvent(std::move(updatedPropValue))
halEventsOf(written, updatedPropValue) ==
    IF written THEN <<updatedPropValue>> ELSE <<>>

OnPropertyValue(value, updateStatus, accept) ==
    /\ phase \in {"constructed", "created"}
    /\ \E w \in {writeValue(mPropStore, value, updateStatus, accept)} :
           /\ mPropStore' = w[2]
           /\ lastOp' = Op("onPropertyValue",
                           [value |-> value, updateStatus |-> updateStatus],
                           "-", [accepted |-> w[1]],
                           <<Call("writeValue",
                                  [value |-> value, updateStatus |-> updateStatus])>>,
                           halEventsOf(w[1], value), None)
    /\ UNCHANGED <<phase, mRecurrentTimer, now>>

\* ------------------------------------------------ onContinuousPropertyTimer
createVhalHeartBeatProp(t) ==
    VehiclePropValue(VHAL_HEARTBEAT, 0, "AVAILABLE", 0,
                     RawPropValues(<<>>, <<t>>, <<>>, <<>>, <<>>))

\* Mutant of doInternalHealthCheck: the canary counts only while AVAILABLE.
doInternalHealthCheckAvailableOnly(store, t) ==
    IF readValueOrNull(store, PERF_VEHICLE_SPEED, 0) # None
       /\ readValueOrNull(store, PERF_VEHICLE_SPEED, 0).status = "AVAILABLE"
    THEN createVhalHeartBeatProp(t)
    ELSE None

doInternalHealthCheck(store, t) ==
    IF readValueOrNull(store, PERF_VEHICLE_SPEED, 0) # None
    THEN createVhalHeartBeatProp(t)
    ELSE None

\* Mutant of onContinuousPropertyTimer: an id that is neither continuous nor
\* the heartbeat ends the invocation.
RECURSIVE onContinuousPropertyTimerBreaks(_, _, _)
onContinuousPropertyTimerBreaks(store, properties, t) ==
    IF properties = <<>> THEN <<>>
    ELSE LET property == Head(properties)
             v == IF isContinuousProperty(property)
                  THEN readValueOrNull(store, property, 0)
                  ELSE IF property = VHAL_HEARTBEAT
                  THEN doInternalHealthCheck(store, t)
                  ELSE None
         IN  IF ~isContinuousProperty(property) /\ property # VHAL_HEARTBEAT
             THEN <<>>
             ELSE (IF v # None THEN <<[v EXCEPT !.timestamp = t]>> ELSE <<>>)
                  \o onContinuousPropertyTimerBreaks(store, Tail(properties), t)

\* The events one invocation emits for its list of due properties.
RECURSIVE onContinuousPropertyTimer(_, _, _)
onContinuousPropertyTimer(store, properties, t) ==
    IF properties = <<>> THEN <<>>
    ELSE LET property == Head(properties)
             v == IF isContinuousProperty(property)
                  THEN readValueOrNull(store, property, 0)
                  ELSE IF property = VHAL_HEARTBEAT
                  THEN doInternalHealthCheck(store, t)
                  ELSE None
         IN  (IF v # None THEN <<[v EXCEPT !.timestamp = t]>> ELSE <<>>)
             \o onContinuousPropertyTimer(store, Tail(properties), t)

\* The cookies of a set of registrations, in ascending order.
RECURSIVE dueList(_)
dueList(cookies) ==
    IF cookies = {} THEN <<>>
    ELSE LET c == CHOOSE x \in cookies : \A y \in cookies : x <= y
         IN  <<c>> \o dueList(cookies \ {c})

\* The scheduler calls the timer action with the cookies that are due, which
\* are registered ones, coalesced into one list.
OnContinuousPropertyTimer(due) ==
    /\ phase = "created"
    /\ due # {}
    /\ due \subseteq {r.cookie : r \in mRecurrentTimer}
    /\ lastOp' = Op("onContinuousPropertyTimer", [due |-> dueList(due)], "-", None, <<>>,
                    onContinuousPropertyTimer(mPropStore, dueList(due), now), None)
    /\ UNCHANGED <<phase, mPropStore, mRecurrentTimer, now>>

\* ------------------------------------------------------------------ clock
Tick ==
    /\ phase # "crashed"
    /\ now < MaxTime
    /\ now' = now + 1
    /\ lastOp' = Op("tick", None, "-", None, <<>>, <<>>, None)
    /\ UNCHANGED <<phase, mPropStore, mRecurrentTimer>>

\* --------------------------------------------------------------------- Next
Next ==
    \/ \E accept \in BOOLEAN : OnCreate(accept) /\ UNCHANGED aside
    \/ \E k \in GetInputs : Get(k[1], k[2]) /\ UNCHANGED aside
    \/ \E v \in SetInputs, cs \in ClientStatuses, ub \in UndefinedOutcomes :
           Set(v, cs, ub) /\ UNCHANGED aside
    \/ \E k \in SubscribeInputs : Subscribe(k[1], k[2]) /\ UNCHANGED aside
    \/ \E p \in SubscribeProps : Unsubscribe(p) /\ UNCHANGED aside
    \/ \E v \in PushInputs(now), u \in BOOLEAN, accept \in BOOLEAN :
           OnPropertyValue(v, u, accept) /\ UNCHANGED aside
    \/ \E due \in SUBSET {r.cookie : r \in mRecurrentTimer} :
           OnContinuousPropertyTimer(due) /\ UNCHANGED aside
    \/ Tick /\ UNCHANGED aside

Spec == Init /\ [][Next]_vars

\* ------------------------------------------- pushes and reads, with history
\* The same handlers, with the histories kept: which value the hardware pushed
\* over a placeholder, which pushes the store accepted, which events went out.
MaxPushes == 2

\* The value onCreate writes: status UNAVAILABLE and no payload.
isPlaceholderValue(v) == v # None /\ v.status = "UNAVAILABLE" /\ v.value = EmptyValues

\* A record an accepted write changed no longer holds the value pushed over
\* its placeholder.
freshAfterWrites(store, written, f) ==
    [id \in RecordIds |-> IF written[id] = store[id] THEN f[id] ELSE None]

TrackedOnCreate(accept) ==
    /\ OnCreate(accept)
    /\ fresh' = freshAfterWrites(mPropStore, mPropStore', fresh)
    /\ UNCHANGED <<inflight, pendingSet, accepted, emitted, stale>>

TrackedOnPropertyValue(value, updateStatus, accept) ==
    /\ OnPropertyValue(value, updateStatus, accept)
    /\ lastOp'.ret.accepted => Len(accepted) < MaxPushes
    /\ LET id == getRecordId(value.prop, value.areaId)
           written == lastOp'.ret.accepted
       IN  /\ fresh' =
                  IF ~written THEN fresh
                  ELSE [fresh EXCEPT ![id] =
                           IF isPlaceholderValue(mPropStore[id])
                              /\ value.status = "AVAILABLE"
                           THEN [value |-> value, updateStatus |-> updateStatus]
                           ELSE None]
           /\ accepted' = IF written THEN Append(accepted, value) ELSE accepted
           /\ emitted' = emitted \o lastOp'.events
    /\ UNCHANGED <<inflight, pendingSet, stale>>

NextPush ==
    \/ \E accept \in BOOLEAN : TrackedOnCreate(accept)
    \/ \E v \in PushInputs(now), u \in BOOLEAN, accept \in BOOLEAN :
           TrackedOnPropertyValue(v, u, accept)
    \/ \E k \in GetInputs : Get(k[1], k[2]) /\ UNCHANGED aside
    \/ Tick /\ UNCHANGED aside

SpecPush == Init /\ [][NextPush]_vars


\* --------------------------------------- checkVendorMixedPropValue, by itself
\* The function on its own: the initial states are the pairs of a vendor MIXED
\* value and a 9-entry configArray, the one step applies the function.
MaxCount == 1

Zeros(n) == [i \in 1..n |-> 0]

\* Flags are 0 or 1, array lengths 0..MaxCount.
MixedConfigArrays ==
    {<<s, b, i, ni, l, nl, f, nf, nb>> :
        s \in {0, 1}, b \in {0, 1}, i \in {0, 1}, l \in {0, 1}, f \in {0, 1},
        ni \in 0..MaxCount, nl \in 0..MaxCount, nf \in 0..MaxCount,
        nb \in 0..MaxCount}

\* Payloads of every length combination the configArrays above can ask for,
\* and one more.
MixedValues ==
    {VehiclePropValue(kMixedTypePropertyForTest, 0, "AVAILABLE", 0,
                      RawPropValues(Zeros(n32), Zeros(n64), Zeros(nf), Zeros(nb),
                                    Zeros(ns))) :
        n32 \in 0..(MaxCount + 2), n64 \in 0..(MaxCount + 1),
        nf \in 0..(MaxCount + 1), nb \in 0..(MaxCount + 1), ns \in {0, 1}}

InitMixed ==
    /\ phase = "constructed"
    /\ mPropStore = EmptyStore
    /\ mRecurrentTimer = {}
    /\ now = 0
    /\ inflight = <<>>
    /\ pendingSet = None
    /\ fresh = [id \in RecordIds |-> None]
    /\ accepted = <<>>
    /\ emitted = <<>>
    /\ stale = [unsubscribed |-> FALSE, events |-> 0]
    /\ \E ca \in MixedConfigArrays, v \in MixedValues :
           lastOp = Op("input",
                       [value |-> v,
                        config |-> [getConfigOrNull(kMixedTypePropertyForTest)
                                        EXCEPT !.configArray = ca]],
                       "-", None, <<>>, <<>>, None)

CheckVendorMixedPropValue ==
    /\ lastOp.op = "input"
    /\ lastOp' = Op("checkVendorMixedPropValue", lastOp.arg,
                    checkVendorMixedPropValue(lastOp.arg.value, lastOp.arg.config),
                    None, <<>>, <<>>, None)
    /\ UNCHANGED <<phase, mPropStore, mRecurrentTimer, now, aside>>

NextMixed == CheckVendorMixedPropValue

SpecMixed == InitMixed /\ [][NextMixed]_vars

\* ------------------------------------------ the timer action, on any list
\* The timer action is a function of a list of property ids (getTimerAction):
\* here it is called with any list of at most MaxDue ids, registered or not,
\* each id once (the scheduler keeps one event per cookie).
MaxDue == 3

DueIds == {PERF_VEHICLE_SPEED, VHAL_HEARTBEAT, HVAC_FAN_SPEED, INFO_VIN}

RECURSIVE DueLists(_)
DueLists(n) ==
    IF n = 0 THEN {<<>>}
    ELSE DueLists(n - 1)
         \cup UNION {{Append(l, p) : p \in DueIds \ {l[i] : i \in DOMAIN l}} :
                        l \in {x \in DueLists(n - 1) : Len(x) = n - 1}}

TimerAction(properties) ==
    /\ phase = "created"
    /\ properties # <<>>
    /\ lastOp' = Op("onContinuousPropertyTimer", [due |-> properties], "-", None, <<>>,
                    onContinuousPropertyTimer(mPropStore, properties, now), None)
    /\ UNCHANGED <<phase, mPropStore, mRecurrentTimer, now>>

NextOnTimer ==
    \/ \E accept \in BOOLEAN : OnCreate(accept) /\ UNCHANGED aside
    \/ \E v \in PushInputs(now), u \in BOOLEAN, accept \in BOOLEAN :
           OnPropertyValue(v, u, accept) /\ UNCHANGED aside
    \/ \E properties \in DueLists(MaxDue) : TimerAction(properties) /\ UNCHANGED aside

SpecOnTimer == Init /\ [][NextOnTimer]_vars

\* ------------------------------------------------ the timer thread, in steps
\* The scheduler's thread takes the cookies that are due under its lock, lets
\* the lock go and then calls the timer action with them: subscribe and
\* unsubscribe can run between the two steps.
MaxStale == 2

TimerCollect(due) ==
    /\ phase = "created"
    /\ inflight = <<>>
    /\ due # {}
    /\ due \subseteq {r.cookie : r \in mRecurrentTimer}
    /\ inflight' = dueList(due)
    /\ lastOp' = Op("timerDue", [due |-> dueList(due)], "-", None, <<>>, <<>>, None)
    /\ UNCHANGED <<phase, mPropStore, mRecurrentTimer, now, pendingSet, fresh,
                   accepted, emitted, stale>>

\* The events of the last call that carry the property.
EventsFor(events, property) == {i \in DOMAIN events : events[i].prop = property}

TimerDeliver ==
    /\ phase = "created"
    /\ inflight # <<>>
    /\ \E events \in {onContinuousPropertyTimer(mPropStore, inflight, now)} :
           /\ lastOp' = Op("onContinuousPropertyTimer", [due |-> inflight], "-", None,
                           <<>>, events, None)
           /\ stale' =
                  IF stale.unsubscribed
                  THEN [stale EXCEPT !.events =
                           @ + Cardinality(EventsFor(events, PERF_VEHICLE_SPEED))]
                  ELSE stale
           /\ stale'.events <= MaxStale
    /\ inflight' = <<>>
    /\ UNCHANGED <<phase, mPropStore, mRecurrentTimer, now, pendingSet, fresh,
                   accepted, emitted>>

TrackedSubscribe(property, sampleRate) ==
    /\ Subscribe(property, sampleRate)
    /\ stale' = IF property = PERF_VEHICLE_SPEED /\ lastOp'.status = "OK"
                THEN [unsubscribed |-> FALSE, events |-> 0]
                ELSE stale
    /\ UNCHANGED <<inflight, pendingSet, fresh, accepted, emitted>>

TrackedUnsubscribe(property) ==
    /\ Unsubscribe(property)
    /\ stale' = IF property = PERF_VEHICLE_SPEED /\ lastOp'.status = "OK"
                THEN [unsubscribed |-> TRUE, events |-> 0]
                ELSE stale
    /\ UNCHANGED <<inflight, pendingSet, fresh, accepted, emitted>>

NextTimer ==
    \/ \E accept \in BOOLEAN : OnCreate(accept) /\ UNCHANGED aside
    \/ \E v \in PushInputs(now), u \in BOOLEAN, accept \in BOOLEAN :
           OnPropertyValue(v, u, accept) /\ UNCHANGED aside
    \/ \E k \in SubscribeInputs : TrackedSubscribe(k[1], k[2])
    \/ \E p \in SubscribeProps : TrackedUnsubscribe(p)
    \/ \E due \in SUBSET {r.cookie : r \in mRecurrentTimer} : TimerCollect(due)
    \/ TimerDeliver

SpecTimer == Init /\ [][NextTimer]_vars

\* ----------------------------------------------------------- set, in steps
\* set holds no lock between its store read (line 273) and its call of the
\* client (line 280): the push callback can write the store in between.
\* SetBegin runs set up to the availability check, SetForward is the call of
\* setProperty and the return.
SetBegin(propValue, ub) ==
    /\ phase = "created"
    /\ pendingSet = None
    /\ \E r \in {setResult(mPropStore, propValue, "OK", ub)} :
           /\ ~r.uninit => ub = "OK"
           /\ IF r.calls = <<>>
              THEN /\ lastOp' = Op("set", propValue, r.status, None, <<>>, <<>>,
                                   [range |-> r.range, uninit |-> r.uninit])
                   /\ pendingSet' = None
              ELSE /\ lastOp' = Op("setChecked", propValue, "-", None, <<>>, <<>>,
                                   [range |-> r.range, uninit |-> r.uninit])
                   /\ pendingSet' = [propValue |-> propValue, calls |-> r.calls,
                                     aux |-> [range |-> r.range, uninit |-> r.uninit]]
           /\ phase' = IF r.status = "CRASH" THEN "crashed" ELSE phase
           /\ mPropStore' = storeAfterSet(mPropStore, propValue, r)
    /\ UNCHANGED <<mRecurrentTimer, now, inflight, fresh, accepted, emitted, stale>>

SetForward(clientStatus) ==
    /\ phase = "created"
    /\ pendingSet # None
    /\ lastOp' = Op("set", pendingSet.propValue, clientStatus, None, pendingSet.calls,
                    <<>>, pendingSet.aux)
    /\ pendingSet' = None
    /\ UNCHANGED <<phase, mPropStore, mRecurrentTimer, now, inflight, fresh,
                   accepted, emitted, stale>>

\* A push leaves a set that is under way where it is.
NextRace ==
    \/ \E accept \in BOOLEAN : OnCreate(accept) /\ UNCHANGED aside
    \/ \E v \in PushInputs(now), u \in BOOLEAN, accept \in BOOLEAN :
           OnPropertyValue(v, u, accept) /\ UNCHANGED aside
    \/ \E v \in SetInputs, ub \in UndefinedOutcomes : SetBegin(v, ub)
    \/ \E cs \in ClientStatuses : SetForward(cs)

SpecRace == Init /\ [][NextRace]_vars

\* ===================================================================== claims
\* The schema registered for prop, None when there is none.
SchemaOf(prop) == getConfigOrNull(prop)

\* The payload arity the type tag of v.prop asks for.
ShapeOk(v) ==
    LET type == getPropType(v.prop)
        n32 == Len(v.value.int32Values)
        n64 == Len(v.value.int64Values)
        nf == Len(v.value.floatValues)
        ca == SchemaOf(v.prop).configArray
        flag(i) == IF ca[i + 1] = 1 THEN 1 ELSE 0
    IN  \/ type \in {TYPE_BOOLEAN, TYPE_INT32} /\ n32 = 1
        \/ type = TYPE_INT32_VEC /\ n32 >= 1
        \/ type = TYPE_INT64 /\ n64 = 1
        \/ type = TYPE_INT64_VEC /\ n64 >= 1
        \/ type = TYPE_FLOAT /\ nf = 1
        \/ type = TYPE_FLOAT_VEC /\ nf >= 1
        \/ type \in {TYPE_BYTES, TYPE_STRING}
        \/ type = TYPE_MIXED /\ getPropGroup(v.prop) # GROUP_VENDOR
        \/ /\ type = TYPE_MIXED
           /\ getPropGroup(v.prop) = GROUP_VENDOR
           /\ n32 = flag(1) + flag(2) + ca[4]
           /\ n64 = flag(4) + ca[6]
           /\ nf = flag(6) + ca[8]
           /\ (ca[9] = 0 \/ Len(v.value.bytes) = ca[9])

\* The area configs of the schema that apply to v: the first one of a global
\* property, those sharing a bit with v.areaId of an area-scoped one.
MatchingAreas(v) ==
    LET acs == SchemaOf(v.prop).areaConfigs
    IN  IF isGlobalProp(v.prop) THEN {acs[i] : i \in DOMAIN acs \cap {1}}
        ELSE {acs[i] : i \in {j \in DOMAIN acs : BitAnd(acs[j].areaId, v.areaId) # 0}}

\* The scalar element of v lies inside [min, max] of every matching area whose
\* bounds are not both zero.
InBounds(v) ==
    LET type == getPropType(v.prop)
        within(x, lo, hi) == (lo = 0 /\ hi = 0) \/ (lo <= x /\ x <= hi)
    IN  \A ac \in MatchingAreas(v) :
            /\ type = TYPE_INT32 =>
                   within(v.value.int32Values[1], ac.minInt32Value, ac.maxInt32Value)
            /\ type = TYPE_INT64 =>
                   within(v.value.int64Values[1], ac.minInt64Value, ac.maxInt64Value)
            /\ type = TYPE_FLOAT =>
                   within(v.value.floatValues[1], ac.minFloatValue, ac.maxFloatValue)

\* The calls of the last operation to the Hardware Client's setProperty.
SetPropertyCalls ==
    {lastOp.calls[i].args : i \in {j \in DOMAIN lastOp.calls :
                                       lastOp.calls[j].fn = "setProperty"}}

\* C1: every value handed to the Hardware Client's setProperty is the value of
\* a set call with status AVAILABLE, a registered schema, the payload arity of
\* its type tag and a scalar element inside the matching area's bounds; set of
\* 150 on the INT32 property bounded [0, 100] returns INVALID_ARG and calls
\* nothing.
C1_ForwardedValuesAreValid ==
    /\ \A c \in SetPropertyCalls :
           /\ lastOp.op = "set"
           /\ c.value = lastOp.arg
           /\ c.value.status = "AVAILABLE"
           /\ SchemaOf(c.value.prop) # None
           /\ ShapeOk(c.value)
           /\ InBounds(c.value)
    /\ (lastOp.op = "set"
        /\ lastOp.arg = VehiclePropValue(HVAC_FAN_SPEED, 1, "AVAILABLE", 0,
                                         Int32Payload(<<150>>)))
       => (lastOp.status = "INVALID_ARG" /\ lastOp.calls = <<>>)

\* A bounded INT32 value inside its area's range has been forwarded.
C1_Witness ==
    /\ lastOp.op = "set"
    /\ lastOp.arg = VehiclePropValue(HVAC_FAN_SPEED, 3, "AVAILABLE", 0,
                                     Int32Payload(<<100>>))
    /\ SetPropertyCalls # {}

\* C2: set of a value whose status is not AVAILABLE returns INVALID_ARG and
\* makes no call to setProperty, whatever the property, payload and store.
C2_StatusNotSettable ==
    (lastOp.op = "set" /\ lastOp.arg.status # "AVAILABLE")
    => (lastOp.status = "INVALID_ARG" /\ SetPropertyCalls = {})

\* An otherwise valid value with status ERROR was refused while the store
\* holds an AVAILABLE value for its key.
C2_Witness ==
    /\ lastOp.op = "set"
    /\ lastOp.arg = VehiclePropValue(HVAC_FAN_SPEED, 1, "ERROR", 0, Int32Payload(<<50>>))
    /\ mPropStore[<<HVAC_FAN_SPEED, 1>>] # None
    /\ mPropStore[<<HVAC_FAN_SPEED, 1>>].status = "AVAILABLE"
    /\ lastOp.status = "INVALID_ARG"

\* C3: an otherwise valid set is refused with NOT_AVAILABLE, without a call to
\* setProperty, when the store holds a value of another status than AVAILABLE
\* for its key; when the stored value is absent or AVAILABLE the value is
\* forwarded once with updateStatus = false and set returns what the Hardware
\* Client reports.
C3_DisabledPropertyNotDriven ==
    (/\ lastOp.op = "set"
     /\ lastOp.arg.status = "AVAILABLE"
     /\ SchemaOf(lastOp.arg.prop) # None
     /\ ShapeOk(lastOp.arg)
     /\ lastOp.aux.range = "OK")
    => LET cur == mPropStore[getRecordId(lastOp.arg.prop, lastOp.arg.areaId)]
       IN  IF cur # None /\ cur.status # "AVAILABLE"
           THEN lastOp.status = "NOT_AVAILABLE" /\ lastOp.calls = <<>>
           ELSE /\ Len(lastOp.calls) = 1
                /\ lastOp.calls[1].fn = "setProperty"
                /\ lastOp.calls[1].args.value = lastOp.arg
                /\ lastOp.calls[1].args.updateStatus = FALSE
                /\ lastOp.status = lastOp.calls[1].args.returned

\* A valid set on a key whose stored status is ERROR returned NOT_AVAILABLE.
C3_Witness ==
    /\ lastOp.op = "set"
    /\ lastOp.arg = VehiclePropValue(HVAC_FAN_SPEED, 1, "AVAILABLE", 0,
                                     Int32Payload(<<50>>))
    /\ mPropStore[<<HVAC_FAN_SPEED, 1>>] # None
    /\ mPropStore[<<HVAC_FAN_SPEED, 1>>].status = "ERROR"
    /\ lastOp.status = "NOT_AVAILABLE"


\* The (propertyId, area) pairs a schema implies: area 0 of a global property,
\* one pair per declared area config of an area-scoped one.
ImpliedPairs(cfg) ==
    IF isGlobalProp(cfg.prop) THEN {<<cfg.prop, 0>>}
    ELSE {<<cfg.prop, cfg.areaConfigs[j].areaId>> : j \in DOMAIN cfg.areaConfigs}

\* C4: right after onCreate on a store no push has written to, the store holds
\* an UNAVAILABLE value for every (propertyId, area) pair implied by every
\* discovered schema, area 0 of each global property included.
C4_PlaceholderForEveryPair ==
    (lastOp.op = "onCreate" /\ lastOp.aux.fresh)
    => \A i \in DOMAIN getAllPropertyConfig :
           \A id \in ImpliedPairs(getAllPropertyConfig[i]) :
               mPropStore[id] # None /\ mPropStore[id].status = "UNAVAILABLE"

\* C5 as stated: every value in the store has the payload arity of its
\* property's type tag.
C5_StoredShapeMatchesType ==
    \A id \in RecordIds : mPropStore[id] # None => ShapeOk(mPropStore[id])

\* C5 as amended: the broker writes the store without checking the payload: a
\* record changes only by onCreate, which leaves an empty payload with status
\* UNAVAILABLE under a key a schema implies, or by onPropertyValue, which
\* leaves the payload and timestamp exactly as the Hardware Client pushed them
\* under the pushed value's key.
C5_StoreHoldsWhatWasWritten ==
    [][\A id \in RecordIds :
          mPropStore'[id] # mPropStore[id]
          => \/ /\ lastOp'.op = "onCreate"
                /\ \E i \in DOMAIN getAllPropertyConfig :
                       id \in ImpliedPairs(getAllPropertyConfig[i])
                /\ mPropStore'[id].value = EmptyValues
                /\ mPropStore'[id].status = "UNAVAILABLE"
             \/ /\ lastOp'.op = "onPropertyValue"
                /\ id = getRecordId(lastOp'.arg.value.prop, lastOp'.arg.value.areaId)
                /\ mPropStore'[id].value = lastOp'.arg.value.value
                /\ mPropStore'[id].timestamp = lastOp'.arg.value.timestamp]_vars

\* onCreate has written the empty placeholder of the INT32 property.
C5_Witness ==
    /\ lastOp.op = "onCreate"
    /\ mPropStore[<<HVAC_FAN_SPEED, 1>>] # None
    /\ mPropStore[<<HVAC_FAN_SPEED, 1>>].value = EmptyValues
    /\ mPropStore[<<HVAC_FAN_SPEED, 1>>].status = "UNAVAILABLE"

IsContinuousSchema(prop) ==
    SchemaOf(prop) # None /\ SchemaOf(prop).changeMode = "CONTINUOUS"

\* C6: only the heartbeat id and properties whose schema is CONTINUOUS have a
\* registration with the scheduler; subscribe and unsubscribe on any other id
\* return INVALID_ARG and make no call to the scheduler.
C6_OnlyContinuousRegistered ==
    /\ \A r \in mRecurrentTimer :
           r.cookie = VHAL_HEARTBEAT \/ IsContinuousSchema(r.cookie)
    /\ (lastOp.op \in {"subscribe", "unsubscribe"} /\ ~IsContinuousSchema(lastOp.arg.prop))
       => /\ lastOp.status = "INVALID_ARG"
          /\ lastOp.calls = <<>>
          /\ mRecurrentTimer = lastOp.aux.before

\* unsubscribe of an ON_CHANGE property was refused while a CONTINUOUS one is
\* registered.
C6_Witness ==
    /\ lastOp.op = "unsubscribe"
    /\ lastOp.arg.prop = HVAC_FAN_SPEED
    /\ lastOp.status = "INVALID_ARG"
    /\ \E r \in mRecurrentTimer : r.cookie = PERF_VEHICLE_SPEED

\* C7: each property id has at most one registration, and after a successful
\* subscribe(P, r) the one registration of P has the interval derived from r.
C7_OneRegistrationPerProperty ==
    /\ \A r1, r2 \in mRecurrentTimer : r1.cookie = r2.cookie => r1 = r2
    /\ (lastOp.op = "subscribe" /\ lastOp.status = "OK")
       => {r \in mRecurrentTimer : r.cookie = lastOp.arg.prop}
          = {[cookie |-> lastOp.arg.prop,
              interval |-> 1000000 \div lastOp.arg.sampleRate]}

\* subscribe at rate 10 succeeded on a property registered at rate 1.
C7_Witness ==
    /\ lastOp.op = "subscribe"
    /\ lastOp.status = "OK"
    /\ lastOp.arg = [prop |-> PERF_VEHICLE_SPEED, sampleRate |-> 10]
    /\ [cookie |-> PERF_VEHICLE_SPEED, interval |-> 1000000] \in lastOp.aux.before

\* C8: subscribe on a CONTINUOUS property returns OK exactly when
\* minSampleRate <= rate <= maxSampleRate, and INVALID_ARG otherwise.
C8_RateBoundsInclusive ==
    (lastOp.op = "subscribe" /\ IsContinuousSchema(lastOp.arg.prop))
    => LET cfg == SchemaOf(lastOp.arg.prop)
           inside == cfg.minSampleRate <= lastOp.arg.sampleRate
                     /\ lastOp.arg.sampleRate <= cfg.maxSampleRate
       IN  /\ lastOp.status = "OK" <=> inside
           /\ lastOp.status = "INVALID_ARG" <=> ~inside

\* subscribe at exactly maxSampleRate succeeded.
C8_Witness ==
    /\ lastOp.op = "subscribe"
    /\ lastOp.arg = [prop |-> PERF_VEHICLE_SPEED, sampleRate |-> 10]
    /\ SchemaOf(PERF_VEHICLE_SPEED).maxSampleRate = 10
    /\ lastOp.status = "OK"

\* C9: a subscribe that returns INVALID_ARG leaves the scheduler's
\* registrations and their intervals as they were before the call.
C9_RefusedSubscribeKeepsRegistrations ==
    (lastOp.op = "subscribe" /\ lastOp.status = "INVALID_ARG")
    => (mRecurrentTimer = lastOp.aux.before /\ lastOp.calls = <<>>)

\* subscribe at rate 11 was refused on a property registered at rate 1.
C9_Witness ==
    /\ lastOp.op = "subscribe"
    /\ lastOp.arg = [prop |-> PERF_VEHICLE_SPEED, sampleRate |-> 11]
    /\ lastOp.status = "INVALID_ARG"
    /\ [cookie |-> PERF_VEHICLE_SPEED, interval |-> 1000000] \in mRecurrentTimer

\* C10: get returns no value and INVALID_ARG when the store holds nothing for
\* the key, the stored payload and OK when the stored status is AVAILABLE, the
\* stored value and TRY_AGAIN when it is UNAVAILABLE or ERROR; a value is
\* returned exactly when the status is not INVALID_ARG; get leaves the store
\* as it was.
C10_GetReadsStore ==
    [][lastOp'.op = "get"
       => LET cur == mPropStore[getRecordId(lastOp'.arg.prop, lastOp'.arg.areaId)]
              ret == lastOp'.ret
          IN  /\ mPropStore' = mPropStore
              /\ cur = None => (ret = None /\ lastOp'.status = "INVALID_ARG")
              /\ (cur # None /\ cur.status = "AVAILABLE")
                 => (ret # None /\ ret.value = cur.value /\ lastOp'.status = "OK")
              /\ (cur # None /\ cur.status \in {"UNAVAILABLE", "ERROR"})
                 => /\ ret # None
                    /\ ret = [cur EXCEPT !.timestamp = ret.timestamp]
                    /\ lastOp'.status = "TRY_AGAIN"
              /\ ret # None <=> lastOp'.status # "INVALID_ARG"]_vars

\* get on a key holding an ERROR value returned it with TRY_AGAIN.
C10_Witness ==
    /\ lastOp.op = "get"
    /\ lastOp.arg = [prop |-> HVAC_FAN_SPEED, areaId |-> 1]
    /\ lastOp.status = "TRY_AGAIN"
    /\ lastOp.ret # None
    /\ lastOp.ret.status = "ERROR"


\* C11 as stated: once the hardware has pushed an AVAILABLE value v over the
\* UNAVAILABLE placeholder of a key and the store accepted it, every get of that
\* key before a further write returns OK with the payload of v and the clock
\* reading of the get as timestamp, which is not older than the push.
C11_GetAfterPushIsOk ==
    (lastOp.op = "get" /\ getRecordId(lastOp.arg.prop, lastOp.arg.areaId) \in RecordIds
     /\ fresh[getRecordId(lastOp.arg.prop, lastOp.arg.areaId)] # None)
    => LET pushed == fresh[getRecordId(lastOp.arg.prop, lastOp.arg.areaId)].value
       IN  /\ lastOp.status = "OK"
           /\ lastOp.ret # None
           /\ lastOp.ret.value = pushed.value
           /\ lastOp.ret.timestamp = now
           /\ lastOp.ret.timestamp >= pushed.timestamp

\* C11, amended: the same, for a push that carries updateStatus = true. A push
\* with updateStatus = false leaves the stored status UNAVAILABLE, and get
\* answers TRY_AGAIN with the pushed payload.
C11_GetAfterStatusPushIsOk ==
    (lastOp.op = "get" /\ getRecordId(lastOp.arg.prop, lastOp.arg.areaId) \in RecordIds
     /\ fresh[getRecordId(lastOp.arg.prop, lastOp.arg.areaId)] # None)
    => LET f == fresh[getRecordId(lastOp.arg.prop, lastOp.arg.areaId)]
       IN  /\ lastOp.ret # None
           /\ lastOp.ret.value = f.value.value
           /\ lastOp.ret.timestamp = now
           /\ lastOp.ret.timestamp >= f.value.timestamp
           /\ lastOp.status = IF f.updateStatus THEN "OK" ELSE "TRY_AGAIN"

\* A get, one clock step after the push with updateStatus = true, that returns
\* OK with the pushed payload and a timestamp newer than the stored one.
C11_Witness ==
    /\ lastOp.op = "get"
    /\ lastOp.arg = [prop |-> HVAC_FAN_SPEED, areaId |-> 1]
    /\ fresh[getRecordId(HVAC_FAN_SPEED, 1)] # None
    /\ fresh[getRecordId(HVAC_FAN_SPEED, 1)].updateStatus
    /\ lastOp.status = "OK"
    /\ lastOp.ret.timestamp > mPropStore[getRecordId(HVAC_FAN_SPEED, 1)].timestamp

\* C12: a set call leaves every stored value as it was, whatever it returns,
\* a forwarded set the client answers OK included; a stored value changes only
\* in an onPropertyValue step or in onCreate's placeholder writes.
C12_SetNeverWritesStore ==
    [][/\ lastOp'.op = "set" => mPropStore' = mPropStore
       /\ mPropStore' # mPropStore => lastOp'.op \in {"onPropertyValue", "onCreate"}]_vars

\* A set that was forwarded and answered OK, with a payload other than the one
\* the store holds for its key.
C12_Witness ==
    /\ lastOp.op = "set"
    /\ lastOp.status = "OK"
    /\ lastOp.calls # <<>>
    /\ getRecordId(lastOp.arg.prop, lastOp.arg.areaId) \in RecordIds
    /\ mPropStore[getRecordId(lastOp.arg.prop, lastOp.arg.areaId)] # None
    /\ mPropStore[getRecordId(lastOp.arg.prop, lastOp.arg.areaId)].value
           # lastOp.arg.value

\* The heartbeat events among the events of the last call.
HeartBeatEvents ==
    {i \in 1..Len(lastOp.events) : lastOp.events[i].prop = VHAL_HEARTBEAT}

\* C14: a timer invocation whose due list holds the heartbeat id emits one
\* heartbeat event when the store holds a value for (PERF_VEHICLE_SPEED, 0),
\* whatever its status, and none when it holds no such value; the event has
\* the heartbeat id, area 0 and status AVAILABLE.
C14_HeartBeatIffCanaryStored ==
    (lastOp.op = "onContinuousPropertyTimer"
     /\ \E i \in 1..Len(lastOp.arg.due) : lastOp.arg.due[i] = VHAL_HEARTBEAT)
    => /\ Cardinality(HeartBeatEvents) =
              IF readValueOrNull(mPropStore, PERF_VEHICLE_SPEED, 0) # None THEN 1 ELSE 0
       /\ \A i \in HeartBeatEvents :
              /\ lastOp.events[i].areaId = 0
              /\ lastOp.events[i].status = "AVAILABLE"

\* A heartbeat tick that emitted the heartbeat while the stored canary value
\* was UNAVAILABLE.
C14_Witness ==
    /\ lastOp.op = "onContinuousPropertyTimer"
    /\ lastOp.arg.due = <<VHAL_HEARTBEAT>>
    /\ readValueOrNull(mPropStore, PERF_VEHICLE_SPEED, 0) # None
    /\ readValueOrNull(mPropStore, PERF_VEHICLE_SPEED, 0).status = "UNAVAILABLE"
    /\ Cardinality(HeartBeatEvents) = 1

\* A heartbeat tick that emitted nothing: the store holds no canary value.
C14_WitnessAbsent ==
    /\ lastOp.op = "onContinuousPropertyTimer"
    /\ lastOp.arg.due = <<VHAL_HEARTBEAT>>
    /\ readValueOrNull(mPropStore, PERF_VEHICLE_SPEED, 0) = None
    /\ lastOp.events = <<>>

\* C16: an onPropertyValue call emits one event, the pushed value, when
\* writeValue returned true and none when it returned false; pushes coming one
\* after the other, the events emitted so far are the accepted writes in the
\* order the store accepted them (for every key, then, as well).
C16_OneEventPerAcceptedWrite ==
    /\ lastOp.op = "onPropertyValue"
        => lastOp.events = IF lastOp.ret.accepted THEN <<lastOp.arg.value>> ELSE <<>>
    /\ emitted = accepted

\* Two accepted pushes for one key and a refused one after them.
C16_Witness ==
    /\ lastOp.op = "onPropertyValue"
    /\ ~lastOp.ret.accepted
    /\ lastOp.events = <<>>
    /\ Len(emitted) = 2
    /\ emitted[1].prop = emitted[2].prop /\ emitted[1].areaId = emitted[2].areaId
    /\ emitted[1] # emitted[2]

\* The set calls C18 is about: a scalar numeric property that is not global,
\* and an areaId that shares no bit with an area config of its schema.
IsUnmatchedAreaSet ==
    /\ lastOp.op = "set"
    /\ SchemaOf(lastOp.arg.prop) # None
    /\ getPropType(lastOp.arg.prop) \in {TYPE_INT32, TYPE_INT64, TYPE_FLOAT}
    /\ ~isGlobalProp(lastOp.arg.prop)
    /\ MatchingAreas(lastOp.arg) = {}

\* C18: a set for an area-scoped scalar numeric property whose areaId matches
\* no declared area config returns INVALID_ARG and is not forwarded, and no
\* set reads the bounds of an area config that was not resolved.
C18_UnmatchedAreaIsRefused ==
    /\ IsUnmatchedAreaSet => lastOp.status = "INVALID_ARG" /\ lastOp.calls = <<>>
    /\ lastOp.op = "set" => ~lastOp.aux.uninit

\* C20: onCreate issues a placeholder write only for keys the store holds no
\* value for; before onCreate the only writer is the push callback, so no
\* pushed value is followed by a placeholder write to its key.
C20_PlaceholderOnlyBeforePush ==
    lastOp.op = "onCreate"
    => \A i \in DOMAIN lastOp.calls :
           lastOp.calls[i].fn = "writeValue"
           => getRecordId(lastOp.calls[i].args.value.prop,
                          lastOp.calls[i].args.value.areaId) \notin lastOp.aux.held

\* C15: for a vendor MIXED value and a 9-entry configArray (positions counted
\* from 0), checkVendorMixedPropValue returns INVALID_ARG when the int32
\* length is not flag@1 + flag@2 + configArray[3], or the int64 length is not
\* flag@4 + configArray[5], or the float length is not flag@6 +
\* configArray[7], or configArray[8] is nonzero and not the byte length; it
\* returns OK otherwise, whatever the string length.
C15_MixedRejectsIffLengthDiffers ==
    lastOp.op = "checkVendorMixedPropValue"
    => LET ca == lastOp.arg.config.configArray
           v == lastOp.arg.value.value
           at(k) == ca[k + 1]
           length ==
               \/ Len(v.int32Values) # at(1) + at(2) + at(3)
               \/ Len(v.int64Values) # at(4) + at(5)
               \/ Len(v.floatValues) # at(6) + at(7)
               \/ at(8) # 0 /\ Len(v.bytes) # at(8)
       IN  lastOp.status = IF length THEN "INVALID_ARG" ELSE "OK"

\* An accepted value with a string, where both int32 flags, the Long flag and
\* a byte length count.
C15_Witness ==
    /\ lastOp.op = "checkVendorMixedPropValue"
    /\ lastOp.status = "OK"
    /\ lastOp.arg.config.configArray[1] = 0
    /\ lastOp.arg.config.configArray[2] = 1
    /\ lastOp.arg.config.configArray[3] = 1
    /\ lastOp.arg.config.configArray[5] = 1
    /\ lastOp.arg.config.configArray[9] = 1
    /\ Len(lastOp.arg.value.value.stringValue) = 1
    /\ Len(lastOp.arg.value.value.int32Values) = 3

\* C17: in one invocation of the timer action, the ids that yield an event
\* are the CONTINUOUS ids with a stored value (and the heartbeat id while the
\* canary is stored); the events are these ids' values, one each, in the
\* order of the list, so an id that is neither CONTINUOUS nor the heartbeat
\* yields nothing and hides no id before or after it; the store is as before.
C17_OffendingIdIsSkipped ==
    [][lastOp'.op = "onContinuousPropertyTimer"
       => LET Yields(p) ==
                  \/ IsContinuousSchema(p) /\ readValueOrNull(mPropStore, p, 0) # None
                  \/ p = VHAL_HEARTBEAT
                     /\ readValueOrNull(mPropStore, PERF_VEHICLE_SPEED, 0) # None
              yielding == SelectSeq(lastOp'.arg.due, Yields)
          IN  /\ mPropStore' = mPropStore
              /\ Len(lastOp'.events) = Len(yielding)
              /\ \A i \in 1..Len(yielding) :
                     /\ lastOp'.events[i].prop = yielding[i]
                     /\ IsContinuousSchema(yielding[i])
                        => lastOp'.events[i].value
                               = readValueOrNull(mPropStore, yielding[i], 0).value]_vars

\* An invocation with an ON_CHANGE id between a stored CONTINUOUS id and the
\* heartbeat id: two events.
C17_Witness ==
    /\ lastOp.op = "onContinuousPropertyTimer"
    /\ lastOp.arg.due = <<PERF_VEHICLE_SPEED, HVAC_FAN_SPEED, VHAL_HEARTBEAT>>
    /\ Len(lastOp.events) = 2
    /\ lastOp.events[1].prop = PERF_VEHICLE_SPEED
    /\ lastOp.events[2].prop = VHAL_HEARTBEAT

\* An invocation with an id that has no schema before a CONTINUOUS id that has
\* no stored value: no event.
C17_WitnessAbsent ==
    /\ lastOp.op = "onContinuousPropertyTimer"
    /\ lastOp.arg.due = <<INFO_VIN, PERF_VEHICLE_SPEED>>
    /\ readValueOrNull(mPropStore, PERF_VEHICLE_SPEED, 0) = None
    /\ lastOp.events = <<>>

\* C13: after unsubscribe(P) returned OK for the CONTINUOUS property P, and
\* until P is subscribed again, at most one timer event for P is emitted (the
\* tick whose due list was taken before the unsubscribe); an unsubscribe of a
\* CONTINUOUS property that has no registration returns OK and leaves the
\* registrations as they were, so a second unsubscribe returns OK as well.
C13_AtMostOneStaleTick ==
    /\ stale.unsubscribed => stale.events <= 1
    /\ (lastOp.op = "unsubscribe" /\ IsContinuousSchema(lastOp.arg.prop))
        => /\ lastOp.status = "OK"
           /\ \A r \in mRecurrentTimer : r.cookie # lastOp.arg.prop
           /\ (\A r \in lastOp.aux.before : r.cookie # lastOp.arg.prop)
                  => mRecurrentTimer = lastOp.aux.before

\* The tick in flight at the unsubscribe has been delivered, with its event
\* for P, and no registration of P is left.
C13_Witness ==
    /\ stale.unsubscribed
    /\ stale.events = 1
    /\ lastOp.op = "onContinuousPropertyTimer"
    /\ \A r \in mRecurrentTimer : r.cookie # PERF_VEHICLE_SPEED

\* A second unsubscribe, after the stale tick: OK, nothing changed.
C13_WitnessSecond ==
    /\ stale.unsubscribed
    /\ lastOp.op = "unsubscribe"
    /\ lastOp.arg.prop = PERF_VEHICLE_SPEED
    /\ lastOp.status = "OK"
    /\ \A r \in lastOp.aux.before : r.cookie # PERF_VEHICLE_SPEED

\* C19: with pushes running between the steps of set, whenever set calls the
\* client's setProperty for a key, the store holds no value with a status
\* other than AVAILABLE for that key.
C19_ForwardNeverToDisabled ==
    (lastOp.op = "set" /\ lastOp.calls # <<>>)
    => ~isDisabled(readValueOrNull(mPropStore, lastOp.arg.prop, lastOp.arg.areaId))

====
